---- MODULE Spec2Model ----
(***************************************************************************)
(* Model of app.py: the Streamlit flow main(), the pipeline process_data() *)
(* and the label parser parse_month_column().                              *)
(*                                                                         *)
(* Strings whose characters the code inspects (column labels, product      *)
(* identifiers) are sequences of one-character strings, so that strptime   *)
(* and str.endswith are computed, not assumed.  A column label of a frame  *)
(* is a record [t, s, y, m]: t = "str" (a Python str, characters in s),    *)
(* t = "ts" (a pandas Timestamp, first day of month m of year y) or        *)
(* t = "NaT" (pandas.NaT).                                                 *)
(***************************************************************************)
EXTENDS Integers, Sequences, FiniteSets, TLC

\* ------------------------------------------------------------------ bounds
MaxExtraCols == 2
MaxRows == 2
MaxFeed == 2

\* ------------------------------------------------------- values and labels
Str(s) == [t |-> "str", s |-> s, y |-> 0, m |-> 0]
Timestamp(y, m) == [t |-> "ts", s |-> <<>>, y |-> y, m |-> m]
NaT == [t |-> "NaT", s |-> <<>>, y |-> 0, m |-> 0]
None == [t |-> "None", s |-> <<>>, y |-> 0, m |-> 0]

\* isinstance(col, str) and isinstance(col, pd.Timestamp); NaT is neither
IsStr(col) == col.t = "str"
IsTimestamp(col) == col.t = "ts"

MarketLabel == Str(<<"M", "a", "r", "k", "e", "t">>)
PidLabel == Str(<<"P", "r", "o", "d", "u", "c", "t", " ", "I", "D", " ", "(", "P", "I", "D", ")">>)
Feb25 == Str(<<"f", "e", "b", "-", "2", "5">>)
Jul25 == Str(<<"j", "u", "l", "-", "2", "5">>)
Sep25 == Str(<<"S", "e", "p", "-", "2", "5">>)
Slash2025 == Str(<<"1", "/", "0", "2", "/", "2", "0", "2", "5">>)
Notes == Str(<<"N", "o", "t", "e", "s">>)

\* labels a forecast sheet may carry besides Market and Product ID (PID)
LabelPool == {Feb25, Jul25, Sep25, Slash2025, Notes}

\* ----------------------------------------------------------------- strptime
Digits == {"0", "1", "2", "3", "4", "5", "6", "7", "8", "9"}
DigitVal(c) == CASE c = "0" -> 0 [] c = "1" -> 1 [] c = "2" -> 2 [] c = "3" -> 3
                 [] c = "4" -> 4 [] c = "5" -> 5 [] c = "6" -> 6 [] c = "7" -> 7
                 [] c = "8" -> 8 [] c = "9" -> 9

RECURSIVE Number(_)
Number(s) == IF s = <<>> THEN 0
             ELSE 10 * Number(SubSeq(s, 1, Len(s) - 1)) + DigitVal(s[Len(s)])

AllDigits(s) == \A i \in 1..Len(s) : s[i] \in Digits

\* str.lower on the letters that occur in the labels
LowerChar(c) == CASE c = "F" -> "f" [] c = "J" -> "j" [] c = "S" -> "s"
                  [] c = "M" -> "m" [] c = "N" -> "n" [] c = "P" -> "p"
                  [] c = "I" -> "i" [] c = "D" -> "d" [] OTHER -> c
Lower(s) == [i \in 1..Len(s) |-> LowerChar(s[i])]

MonthAbbr == << <<"j", "a", "n">>, <<"f", "e", "b">>, <<"m", "a", "r">>,
                <<"a", "p", "r">>, <<"m", "a", "y">>, <<"j", "u", "n">>,
                <<"j", "u", "l">>, <<"a", "u", "g">>, <<"s", "e", "p">>,
                <<"o", "c", "t">>, <<"n", "o", "v">>, <<"d", "e", "c">> >>

\* %y: two digits; 69..99 are 1969..1999, 00..68 are 2000..2068
Year2(n) == IF n >= 69 THEN 1900 + n ELSE 2000 + n

\* strptime(s, '%b-%y'): the whole string must match (month name matched
\* case-insensitively); the day defaults to 1.  NaT when it does not match.
StrptimeBY(s) ==
    IF /\ Len(s) = 6
       /\ \E k \in 1..12 : MonthAbbr[k] = Lower(SubSeq(s, 1, 3))
       /\ s[4] = "-"
       /\ AllDigits(SubSeq(s, 5, 6))
    THEN Timestamp(Year2(Number(SubSeq(s, 5, 6))),
                   CHOOSE k \in 1..12 : MonthAbbr[k] = Lower(SubSeq(s, 1, 3)))
    ELSE NaT

\* %d: 1..31 in one or two digits, %m: 1..12 in one or two digits
DayField(s) == Len(s) \in {1, 2} /\ AllDigits(s) /\ Number(s) \in 1..31
MonthField(s) == Len(s) \in {1, 2} /\ AllDigits(s) /\ Number(s) \in 1..12

\* strptime(s, '%d/%m/%Y'); the model keeps the month and the year of a date
StrptimeDMY(s) ==
    LET fits(ld, lm) ==
            /\ Len(s) = ld + lm + 6
            /\ DayField(SubSeq(s, 1, ld))
            /\ s[ld + 1] = "/"
            /\ MonthField(SubSeq(s, ld + 2, ld + 1 + lm))
            /\ s[ld + lm + 2] = "/"
            /\ AllDigits(SubSeq(s, ld + lm + 3, ld + lm + 6))
        splits == {p \in {1, 2} \X {1, 2} : fits(p[1], p[2])}
    IN IF splits = {} THEN NaT
       ELSE LET p == CHOOSE q \in splits : TRUE
            IN Timestamp(Number(SubSeq(s, p[1] + p[2] + 3, p[1] + p[2] + 6)),
                         Number(SubSeq(s, p[1] + 2, p[1] + 1 + p[2])))

\* pd.to_datetime(col, format=fmt, errors='coerce') on a str: a string that
\* does not match the format is coerced to NaT; the call does not raise.
to_datetime(col, fmt) ==
    [raised |-> FALSE,
     value |-> IF fmt = "%b-%y" THEN StrptimeBY(col.s) ELSE StrptimeDMY(col.s)]

\* parse_month_column: the second format is tried only when the first call
\* raises, and None is returned only when both raise.
parse_month_column(col) ==
    LET first == to_datetime(col, "%b-%y")
        second == to_datetime(col, "%d/%m/%Y")
    IN IF ~first.raised THEN first.value
       ELSE IF ~second.raised THEN second.value
       ELSE None

\* ------------------------------------------------------------------- dates
IsLeap(y) == (y % 4 = 0 /\ y % 100 # 0) \/ y % 400 = 0
CumDays == <<0, 31, 59, 90, 120, 151, 181, 212, 243, 273, 304, 334>>
\* day number of the first day of a month (proleptic Gregorian)
DayNumber(ts) ==
    365 * ts.y + ((ts.y - 1) \div 4) - ((ts.y - 1) \div 100) + ((ts.y - 1) \div 400)
    + CumDays[ts.m] + (IF ts.m > 2 /\ IsLeap(ts.y) THEN 1 ELSE 0)
Abs(n) == IF n < 0 THEN -n ELSE n
\* abs(pd.to_datetime(x) - pd.to_datetime(month)), in days
Distance(x, month) == Abs(DayNumber(x) - DayNumber(month))

\* ------------------------------------------------------------------ frames
\* A cell: a str (characters in s), a number n, or a missing value (NaN).
StrCell(s) == [k |-> "str", s |-> s, n |-> 0]
NumCell(n) == [k |-> "num", s |-> <<>>, n |-> n]
NaN == [k |-> "nan", s |-> <<>>, n |-> 0]

US == <<"U", "S">>
MX == <<"M", "X">>

\* A forecast row: the Market cell, the Product ID (PID) cell (a str, as after
\* line 30), and the cell the row holds in each of its further columns (the
\* sheets enumerated here give a row the same quantity in every month).
ForecastRow(market, pid, cell) == [Market |-> market, PID |-> pid, cell |-> cell]
SheetRows == << ForecastRow(US, <<"1">>, NumCell(1)),
                ForecastRow(US, <<"2", "1">>, NumCell(1)),
                ForecastRow(US, <<"3">>, NaN),
                ForecastRow(MX, <<"1">>, NumCell(0)),
                ForecastRow(US, <<"2", "1">>, StrCell(<<"x">>)),
                ForecastRow(US, <<"3">>, NumCell(3)) >>

FeedRow(id, link) == [MPL_PRODUCT_ID |-> id, LINK |-> link]
FeedRows == << FeedRow(<<"9", "2", "1">>, StrCell(<<"a">>)),
               FeedRow(<<"8", "2", "1">>, StrCell(<<"b">>)),
               FeedRow(<<"7", "1">>, NaN),
               FeedRow(<<"9", "2", "1">>, StrCell(<<"c">>)) >>

\* the runs of at most n consecutive entries of a list
Windows(list, n) ==
    {SubSeq(list, w[1], w[2]) :
        w \in {v \in (1..(Len(list) + 1)) \X (0..Len(list)) :
                   v[2] >= v[1] - 1 /\ v[2] - v[1] + 1 <= n}}

\* sequences of at most n distinct labels of the pool
RECURSIVE LabelLists(_)
LabelLists(n) ==
    IF n = 0 THEN {<<>>}
    ELSE LET shorter == LabelLists(n - 1)
         IN shorter \cup {Append(l, x) : l \in shorter, x \in LabelPool}
DistinctLabels(l) == \A i, j \in 1..Len(l) : l[i] = l[j] => i = j

\* demand_forecast.parse(sheet_names[0]): the sheet's labels and rows
Sheet(extra, rows) ==
    [columns |-> <<MarketLabel, PidLabel>> \o extra,
     rows |-> [r \in 1..Len(rows) |->
                  <<StrCell(rows[r].Market), StrCell(rows[r].PID)>>
                  \o [c \in 1..Len(extra) |-> rows[r].cell]]]

HasColumn(columns, label) == \E i \in 1..Len(columns) : columns[i] = label
ColumnIndex(columns, label) == CHOOSE i \in 1..Len(columns) : columns[i] = label

RequestedMonths == {Timestamp(2025, 2), Timestamp(2025, 8), Timestamp(2024, 12)}

VARIABLES
    demand_forecast,   \* the uploaded forecast sheet (first sheet)
    data_feed,         \* the uploaded data feed: list of FeedRow
    caller,            \* "main": the Streamlit script; "direct": process_data called as a function
    uploaded,          \* main: both file uploaders hold a file
    pc,                \* position in main / process_data
    shown,             \* main: the Streamlit elements emitted so far, in order
    country,           \* the country argument
    month,             \* the month argument
    selected_year,     \* main: the year picked in the year selectbox, 0 before
    df_filtered,       \* process_data's df_filtered
    available_months,  \* process_data's available_months
    selected_month,    \* process_data's selected_month
    raised,            \* the exception process_data raised, "none" if none
    returned           \* the table process_data returned (rows), <<>> before

vars == <<demand_forecast, data_feed, caller, uploaded, pc, shown, country, month, selected_year,
          df_filtered, available_months, selected_month, raised, returned>>

inputs == <<demand_forecast, data_feed, caller, uploaded, selected_year>>
locals == <<df_filtered, available_months, selected_month, raised, returned>>

EmptyFrame == [columns |-> <<>>, rows |-> <<>>]

Init ==
    /\ \E extra \in {l \in LabelLists(MaxExtraCols) : DistinctLabels(l)},
          rows \in Windows(SheetRows, MaxRows) :
          demand_forecast = Sheet(extra, rows)
    /\ data_feed \in Windows(FeedRows, MaxFeed)
    /\ \/ /\ caller = "main"
          /\ uploaded \in BOOLEAN
          /\ pc = "main"
          /\ country = None
          /\ month = None
       \/ /\ caller = "direct"
          /\ uploaded = TRUE
          /\ pc = "process_data"
          /\ country \in {US, MX}
          /\ month \in RequestedMonths
    /\ shown = <<>>
    /\ selected_year = 0
    /\ df_filtered = EmptyFrame
    /\ available_months = <<>>
    /\ selected_month = None
    /\ raised = "none"
    /\ returned = <<>>

\* ------------------------------------------------------------ process_data
\* df.rename(columns=mapping): a label that is a key of the mapping is replaced
\* by the mapped value, whatever that value is; other labels are kept.  The
\* mapping of lines 37 and 113 has every str label as a key, and its value
\* for a label that is not a date is NaT, so such a label becomes NaT.
Rename(columns) ==
    [i \in 1..Len(columns) |->
        IF IsStr(columns[i]) THEN parse_month_column(columns[i]) ELSE columns[i]]

\* [col for col in columns if isinstance(col, pd.Timestamp)], in column order
RECURSIVE TimestampsOf(_)
TimestampsOf(columns) ==
    IF columns = <<>> THEN <<>>
    ELSE IF IsTimestamp(columns[1])
         THEN <<columns[1]>> \o TimestampsOf(Tail(columns))
         ELSE TimestampsOf(Tail(columns))

\* Python's min(iterable, key=...): the first item, in iteration order, whose
\* key is smaller than the key of every item before it and not larger than
\* the key of any item after it
RECURSIVE MinFrom(_, _, _)
MinFrom(best, rest, target) ==
    IF rest = <<>> THEN best
    ELSE IF Distance(rest[1], target) < Distance(best, target)
         THEN MinFrom(rest[1], Tail(rest), target)
         ELSE MinFrom(best, Tail(rest), target)
\* a scan that lets a later item of equal key replace the best one so far
RECURSIVE MinFromLast(_, _, _)
MinFromLast(best, rest, target) ==
    IF rest = <<>> THEN best
    ELSE IF Distance(rest[1], target) <= Distance(best, target)
         THEN MinFromLast(rest[1], Tail(rest), target)
         ELSE MinFromLast(best, Tail(rest), target)
ClosestMonthLast(months, target) == MinFromLast(months[1], Tail(months), target)
ClosestMonth(months, target) == MinFrom(months[1], Tail(months), target)

\* lines 27-34: parse the first sheet, coerce the ids to str, keep the rows
\* of the country
PD_Filter ==
    /\ pc = "process_data"
    /\ df_filtered' =
          [columns |-> demand_forecast.columns,
           rows |-> SelectSeq(demand_forecast.rows,
                              LAMBDA r : r[ColumnIndex(demand_forecast.columns, MarketLabel)]
                                         = StrCell(country))]
    /\ pc' = "pd_rename"
    /\ UNCHANGED <<inputs, shown, country, month, available_months,
                   selected_month, raised, returned>>

\* lines 36-38
PD_Rename ==
    /\ pc = "pd_rename"
    /\ df_filtered' = [df_filtered EXCEPT !.columns = Rename(@)]
    /\ pc' = "pd_months"
    /\ UNCHANGED <<inputs, shown, country, month, available_months,
                   selected_month, raised, returned>>

Finished == IF caller = "main" THEN "main_after" ELSE "end"

\* lines 40-44
PD_Months ==
    /\ pc = "pd_months"
    /\ available_months' = TimestampsOf(df_filtered.columns)
    /\ IF available_months' = <<>>
       THEN raised' = "ValueError" /\ pc' = Finished
       ELSE raised' = raised /\ pc' = "pd_select"
    /\ UNCHANGED <<inputs, shown, country, month, df_filtered, selected_month, returned>>

\* line 46
PD_Select ==
    /\ pc = "pd_select"
    /\ selected_month' = ClosestMonth(available_months, month)
    /\ pc' = "pd_rank"
    /\ UNCHANGED <<inputs, shown, country, month, df_filtered, available_months,
                   raised, returned>>

\* ----------------------------------------------- lines 48-66 of process_data
HeadN == 20

Perms(n) == {f \in [1..n -> 1..n] : \A i, j \in 1..n : f[i] = f[j] => i = j}

\* sort_values(by=selected_month, ascending=False) on rows [pid, qty] with
\* numeric or missing quantities.  The default kind is 'quicksort', which is
\* not a stable sort: rows come out in descending order with the missing
\* values last (in input order), rows of equal quantity in any order.
SortedDescending(rows) ==
    LET n == Len(rows)
        InOrder(f, i, j) ==
            IF rows[f[i]].qty.k = "nan"
            THEN rows[f[j]].qty.k = "nan" /\ f[i] < f[j]
            ELSE rows[f[j]].qty.k = "nan" \/ rows[f[i]].qty.n >= rows[f[j]].qty.n
    IN {[i \in 1..n |-> rows[f[i]]] :
          f \in {g \in Perms(n) : \A i, j \in 1..n : i < j => InOrder(g, i, j)}}

FirstRows(s, n) == SubSeq(s, 1, IF Len(s) < n THEN Len(s) ELSE n)

RECURSIVE SumQty(_)
\* Series.sum(): missing values are skipped
SumQty(rows) ==
    IF rows = <<>> THEN 0
    ELSE (IF rows[1].qty.k = "num" THEN rows[1].qty.n ELSE 0) + SumQty(Tail(rows))

\* round(0) of num/den, den # 0: to the nearest integer, halves to the even
\* one (the quotient is taken exactly here, in binary floating point by pandas)
RoundHalfEven(num, den) ==
    LET a == IF den < 0 THEN -num ELSE num
        b == IF den < 0 THEN -den ELSE den
        q == a \div b
        r == a - q * b
    IN IF 2 * r < b THEN q
       ELSE IF 2 * r > b THEN q + 1
       ELSE IF q % 2 = 0 THEN q ELSE q + 1

\* mpl.endswith(pid)
EndsWith(mpl, pid) ==
    Len(pid) <= Len(mpl) /\ SubSeq(mpl, Len(mpl) - Len(pid) + 1, Len(mpl)) = pid

\* data_feed[['MPL_PRODUCT_ID', 'LINK']].dropna(): the ids are str after
\* astype(str), so the rows dropped are those without a LINK
DataFeedLinks(feed) == SelectSeq(feed, LAMBDA f : f.LINK.k # "nan")

\* pid_map[pid] of line 60 and its use by replace at line 61: in a dict
\* comprehension a later (pid, mpl) pair overwrites an earlier one
Reconciled(pid, links) ==
    LET matches == {i \in 1..Len(links) : EndsWith(links[i].MPL_PRODUCT_ID, pid)}
    IN IF matches = {} THEN pid
       ELSE links[CHOOSE i \in matches : \A j \in matches : j <= i].MPL_PRODUCT_ID

\* merge(links.drop_duplicates(id), how='left'): the LINK of the first feed
\* row with the id, NaN when there is none
MergedLink(pid, links) ==
    LET same == {i \in 1..Len(links) : links[i].MPL_PRODUCT_ID = pid}
    IN IF same = {} THEN NaN
       ELSE links[CHOOSE i \in same : \A j \in same : i <= j].LINK

\* lines 51-66 on the sorted, truncated rows
Enrich(top, feed) ==
    LET total == SumQty(top)
        links == DataFeedLinks(feed)
    IN IF top # <<>> /\ (total = 0 \/ \E i \in 1..Len(top) : top[i].qty.k = "nan")
       THEN [raised |-> "ValueError", table |-> <<>>]   \* astype(int) of NaN or inf
       ELSE [raised |-> "none",
             table |-> [i \in 1..Len(top) |->
                 LET id == Reconciled(top[i].pid, links)
                 IN [pid |-> id,
                     qty |-> top[i].qty.n,
                     pct |-> RoundHalfEven(100 * top[i].qty.n, total),
                     link |-> MergedLink(id, links)]]]

\* lines 48-66: the outcomes of the rest of process_data
RankAndMerge(frame, sel, feed) ==
    IF ~HasColumn(frame.columns, PidLabel)
    THEN {[raised |-> "KeyError", table |-> <<>>]}      \* line 49
    ELSE LET p == ColumnIndex(frame.columns, PidLabel)
             c == ColumnIndex(frame.columns, sel)
             rows == [r \in 1..Len(frame.rows) |->
                         [pid |-> frame.rows[r][p].s, qty |-> frame.rows[r][c]]]
         IN IF \E r \in 1..Len(rows) : rows[r].qty.k = "str"
            THEN {[raised |-> "TypeError", table |-> <<>>]}  \* str among the quantities
            ELSE {Enrich(FirstRows(s, HeadN), feed) : s \in SortedDescending(rows)}

\* lines 48-66
PD_Rank ==
    /\ pc = "pd_rank"
    /\ \E out \in RankAndMerge(df_filtered, selected_month, data_feed) :
          /\ raised' = out.raised
          /\ returned' = out.table
    /\ pc' = Finished
    /\ UNCHANGED <<inputs, shown, country, month, df_filtered, available_months,
                   selected_month>>

\* -------------------------------------------------------------- generate_pdf
\* The replacement fields of the template of lines 70-82, in order: str.format
\* reads "{ width: 100%; ... }" and "{ border: 1px ... }" of the style sheet
\* as fields named " width" and " border".
TemplateFields == <<" width", " border", "month">>
\* str.format(**kwargs): KeyError at the first field that is not a keyword
Format(fields, kwargs) ==
    IF \E i \in 1..Len(fields) : fields[i] \notin kwargs THEN "KeyError" ELSE "none"
generate_pdf == Format(TemplateFields, {"month"})

\* --------------------------------------------------------------------- main
RECURSIVE Unique(_)
\* Series.dropna().unique(): first occurrences, in order
Unique(s) ==
    IF s = <<>> THEN <<>>
    ELSE LET rest == Unique(SubSeq(s, 1, Len(s) - 1))
         IN IF \E i \in 1..Len(rest) : rest[i] = s[Len(s)] THEN rest
            ELSE Append(rest, s[Len(s)])
Range(s) == {s[i] : i \in 1..Len(s)}

\* lines 96-102
Main_Upload ==
    /\ pc = "main"
    /\ shown' = <<"title", "file_uploader", "file_uploader">>
    /\ pc' = IF uploaded THEN "main_country" ELSE "end"
    /\ UNCHANGED <<inputs, country, month, locals>>

\* lines 104-110: st.selectbox returns one of the options, None without options
Main_Country ==
    /\ pc = "main_country"
    /\ LET m == ColumnIndex(demand_forecast.columns, MarketLabel)
           available_countries ==
               Unique([r \in 1..Len(demand_forecast.rows) |-> demand_forecast.rows[r][m].s])
       IN IF available_countries = <<>> THEN country' = None
          ELSE country' \in Range(available_countries)
    /\ shown' = Append(shown, "selectbox:country")
    /\ pc' = "main_months"
    /\ UNCHANGED <<inputs, month, locals>>

\* lines 112-118
Main_Months ==
    /\ pc = "main_months"
    /\ IF TimestampsOf(Rename(demand_forecast.columns)) = <<>>
       THEN shown' = Append(shown, "error") /\ pc' = "end"
       ELSE shown' = shown /\ pc' = "main_year"
    /\ UNCHANGED <<inputs, country, month, locals>>

\* lines 120-121
Main_Year ==
    /\ pc = "main_year"
    /\ selected_year' \in {ts.y : ts \in Range(TimestampsOf(Rename(demand_forecast.columns)))}
    /\ shown' = Append(shown, "selectbox:year")
    /\ pc' = "main_month"
    /\ UNCHANGED <<demand_forecast, data_feed, caller, uploaded, country, month, locals>>

\* lines 122-124
Main_Month ==
    /\ pc = "main_month"
    /\ \E ts \in Range(TimestampsOf(Rename(demand_forecast.columns))) :
          /\ ts.y = selected_year
          /\ month' = Timestamp(selected_year, ts.m)
    /\ shown' = Append(shown, "selectbox:month")
    /\ pc' = "main_button"
    /\ UNCHANGED <<inputs, country, locals>>

\* line 126: the button is drawn; it returns True in the run that follows a click
Main_Button ==
    /\ pc = "main_button"
    /\ shown' = Append(shown, "button")
    /\ \E clicked \in BOOLEAN : pc' = IF clicked THEN "process_data" ELSE "end"
    /\ UNCHANGED <<inputs, country, month, locals>>

\* lines 127-132: an exception of process_data or generate_pdf ends the run
\* and Streamlit reports it
Main_After ==
    /\ pc = "main_after"
    /\ shown' = IF raised # "none" THEN Append(shown, "exception")
                ELSE IF generate_pdf # "none"
                     THEN shown \o <<"write", "dataframe", "exception">>
                     ELSE shown \o <<"write", "dataframe", "download_button">>
    /\ pc' = "end"
    /\ UNCHANGED <<inputs, country, month, locals>>

Next ==
    \/ PD_Filter \/ PD_Rename \/ PD_Months \/ PD_Select \/ PD_Rank
    \/ Main_Upload \/ Main_Country \/ Main_Months \/ Main_Year \/ Main_Month
    \/ Main_Button \/ Main_After
Spec == Init /\ [][Next]_vars

\* ------------------------------------------------------------------- claims
\* process_data has been called and has finished (returned or raised)
ProcessDataFinished ==
    \/ caller = "direct" /\ pc = "end"
    \/ pc = "main_after"
    \/ caller = "main" /\ pc = "end" /\ "button" \in Range(shown) /\ df_filtered # EmptyFrame

AfterRename == pc \in {"pd_months", "pd_select", "pd_rank"} \/ ProcessDataFinished

\* the cells of the selected month, one per row of the requested market
MetricCells ==
    LET c == ColumnIndex(df_filtered.columns, selected_month)
    IN [r \in 1..Len(df_filtered.rows) |-> df_filtered.rows[r][c]]
\* the identifiers of the rows of the requested market, as given in the sheet
MarketPids ==
    LET p == ColumnIndex(demand_forecast.columns, PidLabel)
    IN [r \in 1..Len(df_filtered.rows) |-> df_filtered.rows[r][p].s]
\* a missing or non-numeric cell counts as zero
AsZero(cell) == IF cell.k = "num" THEN cell.n ELSE 0

\* the positions of the market's rows in descending order of quantity, rows of
\* equal quantity in their input order, at most 20 of them
RankedPositions ==
    LET n == Len(MetricCells)
        f == CHOOSE g \in Perms(n) :
                \A i, j \in 1..n : i < j =>
                    \/ AsZero(MetricCells[g[i]]) > AsZero(MetricCells[g[j]])
                    \/ AsZero(MetricCells[g[i]]) = AsZero(MetricCells[g[j]]) /\ g[i] < g[j]
    IN SubSeq(f, 1, IF n < 20 THEN n ELSE 20)
RECURSIVE SumOver(_, _)
SumOver(positions, cells) ==
    IF positions = <<>> THEN 0
    ELSE AsZero(cells[positions[1]]) + SumOver(Tail(positions), cells)
RECURSIVE SumPct(_)
SumPct(table) == IF table = <<>> THEN 0 ELSE table[1].pct + SumPct(Tail(table))

\* a run of process_data on a sheet with a month column and with numeric
\* quantities of non-zero sum for the requested market
ValidRun ==
    /\ ProcessDataFinished
    /\ selected_month # None
    /\ Len(MetricCells) > 0
    /\ \A r \in 1..Len(MetricCells) : MetricCells[r].k = "num"
    /\ SumOver(RankedPositions, MetricCells) # 0

C2_ShareOfDisplayedTotal ==
    ValidRun =>
        /\ raised = "none" /\ returned # <<>>
        /\ \A i \in 1..Len(returned) :
              returned[i].pct =
                  RoundHalfEven(100 * returned[i].qty, SumOver(RankedPositions, MetricCells))
        /\ Abs(SumPct(returned) - 100) <= Len(returned)

\* C3: on a valid input every returned row whose forecast identifier pid is a
\* suffix of a catalog identifier mpl carries mpl, and every row whose
\* identifier is a suffix of no catalog identifier carries it unchanged.
C3_IdentifiersReconciled ==
    ValidRun =>
        /\ raised = "none" /\ Len(returned) = Len(RankedPositions)
        /\ \A i \in 1..Len(returned) :
              LET pid == MarketPids[RankedPositions[i]]
              IN /\ \A f \in 1..Len(data_feed) :
                        EndsWith(data_feed[f].MPL_PRODUCT_ID, pid)
                            => returned[i].pid = data_feed[f].MPL_PRODUCT_ID
                 /\ (\A f \in 1..Len(data_feed) :
                        ~EndsWith(data_feed[f].MPL_PRODUCT_ID, pid))
                            => returned[i].pid = pid

\* C4: after the labels are normalized, "feb-25" stands for February 2025,
\* "1/02/2025" stands for February 2025, and no month candidate comes from a
\* label that is not a date ("Market", "Product ID (PID)", "Notes").
C4_LabelsResolved ==
    AfterRename =>
        /\ \A i \in 1..Len(demand_forecast.columns) :
              /\ demand_forecast.columns[i] = Feb25
                    => df_filtered.columns[i] = Timestamp(2025, 2)
              /\ demand_forecast.columns[i] = Slash2025
                    => df_filtered.columns[i] = Timestamp(2025, 2)
        /\ \A k \in 1..Len(available_months) :
              \E i \in 1..Len(demand_forecast.columns) :
                  /\ df_filtered.columns[i] = available_months[k]
                  /\ demand_forecast.columns[i] \notin {MarketLabel, PidLabel, Notes}

\* C5: when the quantities of the top-20 rows sum to zero, process_data fails
\* with ZeroTotalQuantity: it returns no table and raises no other error.
C5_ZeroTotalQuantity ==
    ( /\ ProcessDataFinished
      /\ selected_month # None
      /\ Len(MetricCells) > 0
      /\ \A r \in 1..Len(MetricCells) : MetricCells[r].k = "num"
      /\ SumOver(RankedPositions, MetricCells) = 0 )
    => raised = "ZeroTotalQuantity"

\* C6: a run of main on a sheet none of whose labels parses as a month shows
\* no selectbox, and ends with the error message and without a table or a
\* download.
C6_AbortBeforeSelection ==
    ( /\ caller = "main"
      /\ TimestampsOf(Rename(demand_forecast.columns)) = <<>> )
    => /\ Range(shown) \cap {"selectbox:country", "selectbox:year", "selectbox:month"} = {}
       /\ Range(shown) \cap {"dataframe", "download_button"} = {}
       /\ (pc = "end" /\ uploaded) => shown[Len(shown)] = "error"

\* C7 as stated: the selected column is one at the least distance from the
\* requested month, and of the columns at that distance it is the
\* chronologically earliest.
C7_EarliestAmongClosest ==
    selected_month # None =>
        /\ selected_month \in Range(available_months)
        /\ \A c \in Range(available_months) :
              /\ Distance(selected_month, month) <= Distance(c, month)
              /\ Distance(c, month) = Distance(selected_month, month)
                    => DayNumber(selected_month) <= DayNumber(c)

\* C7 amended: the selected column is one at the least distance from the
\* requested month, and of the columns at that distance it is the first in
\* the sheet's column order.
C7_FirstAmongClosest ==
    selected_month # None =>
        \E i \in 1..Len(available_months) :
            /\ available_months[i] = selected_month
            /\ \A j \in 1..Len(available_months) :
                  /\ Distance(available_months[j], month) >= Distance(selected_month, month)
                  /\ j < i => Distance(available_months[j], month) > Distance(selected_month, month)

\* two columns are equally close to the requested month and one is selected
C7_TieSelected ==
    /\ selected_month # None
    /\ \E c \in Range(available_months) :
          /\ c # selected_month
          /\ Distance(c, month) = Distance(selected_month, month)

\* C8: a missing or non-numeric quantity counts as zero: process_data still
\* returns the market's rows ranked by quantity, with the shares of the total.
C8_BadCellsCountAsZero ==
    ( /\ ProcessDataFinished
      /\ selected_month # None
      /\ \E r \in 1..Len(MetricCells) : MetricCells[r].k # "num"
      /\ SumOver(RankedPositions, MetricCells) # 0 )
    => /\ raised = "none"
       /\ Len(returned) = Len(RankedPositions)
       /\ \A i \in 1..Len(returned) :
             /\ returned[i].qty = AsZero(MetricCells[RankedPositions[i]])
             /\ returned[i].pct =
                   RoundHalfEven(100 * returned[i].qty, SumOver(RankedPositions, MetricCells))

\* C9: on a valid input every top-20 row is returned exactly once, with the
\* link of the first catalog row that has its identifier, or with a null link
\* when no catalog row has it; the report can then be rendered.
C9_LeftJoinOnDeduplicatedCatalog ==
    ValidRun =>
        /\ raised = "none" /\ Len(returned) = Len(RankedPositions)
        /\ \A i \in 1..Len(returned) :
              LET same == {f \in 1..Len(data_feed) :
                              data_feed[f].MPL_PRODUCT_ID = returned[i].pid}
              IN IF same = {} THEN returned[i].link = NaN
                 ELSE \E f \in same : /\ \A g \in same : f <= g
                                      /\ returned[i].link = data_feed[f].LINK
        /\ generate_pdf = "none"

\* C10: normalizing the labels leaves every label that is not a date as it
\* was, so the frame still has its "Product ID (PID)" and "Market" columns
\* when the rows are ranked.
C10_OpaqueLabelsKept ==
    AfterRename =>
        /\ \A i \in 1..Len(demand_forecast.columns) :
              parse_month_column(demand_forecast.columns[i]) = NaT
                  => df_filtered.columns[i] = demand_forecast.columns[i]
        /\ HasColumn(df_filtered.columns, PidLabel)
        /\ HasColumn(df_filtered.columns, MarketLabel)
====
